---- MODULE Spec2Model ----
(***************************************************************************)
(* Model of SimpleWorkstationAnalyzer (src/time_study.py): the work/wait   *)
(* cycle timer behind the Streamlit dashboard, together with the           *)
(* handlers of main() that write analysis_data or replace the analyzer     *)
(* (End Session, Reset, a change of Station ID).                           *)
(*                                                                         *)
(* Time is measured in whole seconds.  datetime.now() is the variable now; *)
(* it never goes backwards, and it may or may not advance between two      *)
(* reads, also between two reads made by one handler.  A timedelta's       *)
(* total_seconds() is the integer difference of two readings, so sums of   *)
(* durations are exact here; the rounding of binary floating point is not  *)
(* modelled.  Quotients (percentages, averages) are exact rationals.       *)
(***************************************************************************)
EXTENDS Integers, Sequences, FiniteSets, TLC

VARIABLES
    now,            \* the wall clock read by datetime.now()
    analysis_data,  \* SimpleWorkstationAnalyzer.analysis_data
    last,           \* the last call that changed the analyzer, and its message
    acc,            \* history: clock time the open cycle has spent working / waiting
    ex,             \* history: progress through the worked example of the spec
    created         \* history: cycles start_timer has created in this analyzer

vars == <<now, analysis_data, last, acc, ex, created>>

\* ---------------------------------------------------------------- bounds
MaxCycles == 2

\* the readings datetime.now() is seen to return, in seconds
Readings == {0, 10, 15, 25}

\* what a read may return when the reading before it returned t
Later(t) == {u \in Readings : u >= t}

TaskNames == {"Assemble", "Inspect"}
Operators == {"Unknown"}

\* ---------------------------------------------------------------- values
\* Python's None for a datetime; every clock reading is >= 0
None == -1

\* truth value of an optional datetime: a datetime object is always true
Truthy(t) == t # None

\* (a - b).total_seconds()
total_seconds(a, b) == a - b

\* an exact quotient n / d
Rat(n, d) == [num |-> n, den |-> d]
RatZero == Rat(0, 1)
RatEq(p, q) == p.num * q.den = q.num * p.den
RatAdd(p, q) == Rat(p.num * q.den + q.num * p.den, p.den * q.den)

\* round(n / d, ...) to the nearest integer, ties to even (n >= 0, d > 0)
RoundDiv(n, d) ==
    LET q == n \div d
        r == n % d
    IN  IF 2 * r < d THEN q
        ELSE IF 2 * r > d THEN q + 1
        ELSE IF q % 2 = 0 THEN q ELSE q + 1

RECURSIVE SumOf(_, _)
\* sum(c[field] for c in cycles), as get_current_stats uses it
SumOf(cycles, field) ==
    IF cycles = <<>> THEN 0
    ELSE cycles[1][field] + SumOf(Tail(cycles), field)

Ret(ad, ok, text, task, secs) ==
    [data |-> ad, ok |-> ok, msg |-> [text |-> text, task |-> task, secs |-> secs]]

\* ---------------------------------------------------------------- the analyzer
reset_analysis ==
    [session_start |-> None,
     cycles        |-> <<>>,
     current_cycle |-> <<>>,
     is_timing     |-> FALSE,
     is_waiting    |-> FALSE,
     wait_start    |-> None]

\* start_session that starts a session once only, as the terminal SessionEnded needs
start_session_once(ad, current_time) ==
    IF Truthy(ad.session_start) THEN ad
    ELSE [ad EXCEPT !.session_start = current_time, !.is_timing = TRUE]

start_session(ad, current_time) ==
    [ad EXCEPT !.session_start = current_time, !.is_timing = TRUE]

\* lines 98-108: add the time of the bucket that is accruing
flush(ad, cycle, current_time) ==
    IF ad.is_waiting
    THEN [cycle EXCEPT !.wait_time = @ + total_seconds(current_time, ad.wait_start)]
    ELSE IF Truthy(cycle.work_resume_time)
         THEN [cycle EXCEPT !.work_time =
                  @ + total_seconds(current_time, cycle.work_resume_time)]
         ELSE cycle

\* lines 110-112: stamp the end of the cycle
close(cycle, current_time) ==
    [cycle EXCEPT !.end_time = current_time,
                  !.total_time = total_seconds(current_time, cycle.start_time)]

\* complete_current_cycle without the final work time (lines 104-108 left out)
complete_current_cycle_noflush(ad, current_time) ==
    IF ad.current_cycle = <<>>
    THEN Ret(ad, FALSE, "No active cycle", "", None)
    ELSE
      LET cycle == ad.current_cycle[1]
          flushed == IF ad.is_waiting THEN flush(ad, cycle, current_time) ELSE cycle
      IN  Ret([ad EXCEPT !.is_waiting = FALSE,
                         !.wait_start = IF ad.is_waiting THEN None ELSE @,
                         !.cycles = Append(@, close(flushed, current_time)),
                         !.current_cycle = <<>>],
              TRUE, "Completed cycle for", cycle.task_name, None)

\* complete_current_cycle with cycles.insert(0, cycle) for cycles.append(cycle)
complete_current_cycle_prepend(ad, current_time) ==
    IF ad.current_cycle = <<>>
    THEN Ret(ad, FALSE, "No active cycle", "", None)
    ELSE
      LET cycle == ad.current_cycle[1]
      IN  Ret([ad EXCEPT !.is_waiting = FALSE,
                         !.wait_start = IF ad.is_waiting THEN None ELSE @,
                         !.cycles = <<close(flush(ad, cycle, current_time), current_time)>> \o @,
                         !.current_cycle = <<>>],
              TRUE, "Completed cycle for", cycle.task_name, None)

\* complete_current_cycle that adds to both buckets (if for the elif of line 104)
complete_current_cycle_flushboth(ad, current_time) ==
    IF ad.current_cycle = <<>>
    THEN Ret(ad, FALSE, "No active cycle", "", None)
    ELSE
      LET cycle == ad.current_cycle[1]
          waited == flush(ad, cycle, current_time)
          both == [waited EXCEPT !.work_time =
                      @ + total_seconds(current_time, cycle.work_resume_time)]
      IN  Ret([ad EXCEPT !.is_waiting = FALSE,
                         !.wait_start = IF ad.is_waiting THEN None ELSE @,
                         !.cycles = Append(@, close(IF ad.is_waiting THEN both
                                                    ELSE flush(ad, cycle, current_time),
                                                    current_time)),
                         !.current_cycle = <<>>],
              TRUE, "Completed cycle for", cycle.task_name, None)

\* complete_current_cycle that leaves the wait window open (lines 102-103 left out)
complete_current_cycle_keepwait(ad, current_time) ==
    IF ad.current_cycle = <<>>
    THEN Ret(ad, FALSE, "No active cycle", "", None)
    ELSE
      LET cycle == ad.current_cycle[1]
      IN  Ret([ad EXCEPT !.cycles = Append(@, close(flush(ad, cycle, current_time), current_time)),
                         !.current_cycle = <<>>],
              TRUE, "Completed cycle for", cycle.task_name, None)

complete_current_cycle(ad, current_time) ==
    IF ad.current_cycle = <<>>
    THEN Ret(ad, FALSE, "No active cycle", "", None)
    ELSE
      LET cycle == ad.current_cycle[1]
      IN  Ret([ad EXCEPT !.is_waiting = FALSE,
                         !.wait_start = IF ad.is_waiting THEN None ELSE @,
                         !.cycles = Append(@, close(flush(ad, cycle, current_time), current_time)),
                         !.current_cycle = <<>>],
              TRUE, "Completed cycle for", cycle.task_name, None)

\* lines 42-51: the cycle was waiting, end the wait and resume it
resume(ad, t1) ==
    LET wait_duration == total_seconds(t1, ad.wait_start)
    IN  Ret([ad EXCEPT !.current_cycle[1].wait_time = @ + wait_duration,
                       !.is_waiting = FALSE,
                       !.wait_start = None,
                       !.current_cycle[1].work_resume_time = t1],
            TRUE, "Resumed work on", ad.current_cycle[1].task_name, wait_duration)

\* lines 53-70: complete the cycle that is open, then start the new one
start_new(ad, task_name, operator, t1, t2) ==
    LET prior == IF ad.current_cycle # <<>> /\ ~ad.is_waiting
                 THEN complete_current_cycle(ad, t2).data
                 ELSE ad
        cycle == [task_name        |-> task_name,
                  start_time       |-> t1,
                  end_time         |-> None,
                  work_time        |-> 0,
                  wait_time        |-> 0,
                  total_time       |-> 0,
                  operator         |-> operator,
                  work_resume_time |-> t1]
    IN  Ret([prior EXCEPT !.current_cycle = <<cycle>>],
            TRUE, "Started timer for", task_name, None)

\* start_timer without the check of is_timing (lines 39-40 left out)
start_timer_nosession(ad, task_name, operator, t1, t2) ==
    IF ad.is_waiting /\ ad.current_cycle # <<>>
    THEN resume(ad, t1)
    ELSE start_new(ad, task_name, operator, t1, t2)

\* start_timer whose resume branch writes wait_time = wait_duration (= for +=)
start_timer_overwrite(ad, task_name, operator, t1, t2) ==
    IF ~ad.is_timing
    THEN Ret(ad, FALSE, "Session not started", "", None)
    ELSE IF ad.is_waiting /\ ad.current_cycle # <<>>
    THEN LET r == resume(ad, t1)
         IN  [r EXCEPT !.data.current_cycle[1].wait_time = total_seconds(t1, ad.wait_start)]
    ELSE start_new(ad, task_name, operator, t1, t2)

\* start_timer that rejects the call while a cycle is open, as later variants do
start_timer_reject(ad, task_name, operator, t1, t2) ==
    IF ~ad.is_timing
    THEN Ret(ad, FALSE, "Session not started", "", None)
    ELSE IF ad.is_waiting /\ ad.current_cycle # <<>>
    THEN resume(ad, t1)
    ELSE IF ad.current_cycle # <<>>
    THEN Ret(ad, FALSE, "Cycle already active", "", None)
    ELSE start_new(ad, task_name, operator, t1, t2)

\* start_timer that puts the new cycle in place of the open one (lines 53-55 left out)
start_timer_nocomplete(ad, task_name, operator, t1, t2) ==
    IF ~ad.is_timing
    THEN Ret(ad, FALSE, "Session not started", "", None)
    ELSE IF ad.is_waiting /\ ad.current_cycle # <<>>
    THEN resume(ad, t1)
    ELSE LET r == start_new(ad, task_name, operator, t1, t2)
         IN  [r EXCEPT !.data.cycles = ad.cycles]

\* start_timer whose resume branch does not move work_resume_time (line 51 left out)
start_timer_keepresume(ad, task_name, operator, t1, t2) ==
    IF ~ad.is_timing
    THEN Ret(ad, FALSE, "Session not started", "", None)
    ELSE IF ad.is_waiting /\ ad.current_cycle # <<>>
    THEN LET r == resume(ad, t1)
         IN  [r EXCEPT !.data.current_cycle[1].work_resume_time =
                          ad.current_cycle[1].work_resume_time]
    ELSE start_new(ad, task_name, operator, t1, t2)

\* start_timer that resumes only under the name of the waiting cycle
start_timer_samename(ad, task_name, operator, t1, t2) ==
    IF ~ad.is_timing
    THEN Ret(ad, FALSE, "Session not started", "", None)
    ELSE IF ad.is_waiting /\ ad.current_cycle # <<>>
            /\ ad.current_cycle[1].task_name = task_name
    THEN resume(ad, t1)
    ELSE start_new(ad, task_name, operator, t1, t2)

\* t1 is the reading at the top of start_timer, t2 the one taken inside the
\* complete_current_cycle call it makes (t2 is read only on that path)
start_timer(ad, task_name, operator, t1, t2) ==
    IF ~ad.is_timing
    THEN Ret(ad, FALSE, "Session not started", "", None)
    ELSE IF ad.is_waiting /\ ad.current_cycle # <<>>
    THEN resume(ad, t1)
    ELSE start_new(ad, task_name, operator, t1, t2)

\* lines 80-82: add the work time from the last resume to now
add_work(cycle, current_time) ==
    IF Truthy(cycle.work_resume_time)
    THEN [cycle EXCEPT !.work_time = @ + total_seconds(current_time, cycle.work_resume_time)]
    ELSE cycle

\* lines 84-88: open the wait window
begin_wait(ad, cycle, current_time) ==
    Ret([ad EXCEPT !.current_cycle = <<cycle>>,
                   !.is_waiting = TRUE,
                   !.wait_start = current_time],
        TRUE, "Started waiting period", "", None)

\* start_waiting that does not add the work time (lines 80-82 left out)
start_waiting_nowork(ad, current_time) ==
    IF ad.current_cycle = <<>> \/ ad.is_waiting
    THEN Ret(ad, FALSE, "No active cycle or already waiting", "", None)
    ELSE begin_wait(ad, ad.current_cycle[1], current_time)

\* start_waiting that does not check is_waiting (line 74 without its second test)
start_waiting_nocheck(ad, current_time) ==
    IF ad.current_cycle = <<>>
    THEN Ret(ad, FALSE, "No active cycle or already waiting", "", None)
    ELSE begin_wait(ad, add_work(ad.current_cycle[1], current_time), current_time)

start_waiting(ad, current_time) ==
    IF ad.current_cycle = <<>> \/ ad.is_waiting
    THEN Ret(ad, FALSE, "No active cycle or already waiting", "", None)
    ELSE begin_wait(ad, add_work(ad.current_cycle[1], current_time), current_time)

\* End Session that only clears is_timing (lines 324-325 left out)
end_session_noclose(ad, current_time) ==
    [ad EXCEPT !.is_timing = FALSE]

\* End Session that completes the open cycle only when it is working
end_session_skipwaiting(ad, current_time) ==
    LET closed == IF ad.current_cycle # <<>> /\ ~ad.is_waiting
                  THEN complete_current_cycle(ad, current_time).data
                  ELSE ad
    IN  [closed EXCEPT !.is_timing = FALSE]

\* main(), the End Session button
end_session(ad, current_time) ==
    LET closed == IF ad.current_cycle # <<>>
                  THEN complete_current_cycle(ad, current_time).data
                  ELSE ad
    IN  [closed EXCEPT !.is_timing = FALSE]

\* get_current_stats that leaves the running interval out of total_time
get_current_stats_stale(ad, t1, t2) ==
    LET open == ad.current_cycle # <<>>
        total_work == SumOf(ad.cycles, "work_time") +
            (IF ~open THEN 0
             ELSE ad.current_cycle[1].work_time +
                  (IF ~ad.is_waiting /\ Truthy(ad.current_cycle[1].work_resume_time)
                   THEN total_seconds(t1, ad.current_cycle[1].work_resume_time) ELSE 0))
        total_wait == SumOf(ad.cycles, "wait_time") +
            (IF ~open THEN 0
             ELSE ad.current_cycle[1].wait_time +
                  (IF ad.is_waiting /\ Truthy(ad.wait_start)
                   THEN total_seconds(t1, ad.wait_start) ELSE 0))
        total_time == SumOf(ad.cycles, "total_time") +
            (IF open THEN ad.current_cycle[1].work_time + ad.current_cycle[1].wait_time
             ELSE 0)
    IN  [total_time      |-> total_time,
         work_time       |-> total_work,
         wait_time       |-> total_wait,
         work_percentage |-> IF total_time > 0 THEN Rat(total_work * 100, total_time)
                             ELSE RatZero,
         wait_percentage |-> IF total_time > 0 THEN Rat(total_wait * 100, total_time)
                             ELSE RatZero,
         current_task    |-> IF open THEN ad.current_cycle[1].task_name
                             ELSE "No active task",
         session_duration |-> IF Truthy(ad.session_start)
                              THEN total_seconds(t2, ad.session_start) ELSE 0,
         cycle_count     |-> Len(ad.cycles),
         avg_cycle_time  |-> IF ad.cycles # <<>>
                             THEN Rat(SumOf(ad.cycles, "total_time"), Len(ad.cycles))
                             ELSE RatZero,
         is_waiting      |-> ad.is_waiting,
         current_cycle_active |-> open]

get_current_stats(ad, t1, t2) ==
    LET completed_cycles == ad.cycles
        total_work_time == SumOf(completed_cycles, "work_time")
        total_wait_time == SumOf(completed_cycles, "wait_time")
        open == ad.current_cycle # <<>>
        current_work_time ==
            IF ~open THEN 0
            ELSE ad.current_cycle[1].work_time +
                 (IF ~ad.is_waiting /\ Truthy(ad.current_cycle[1].work_resume_time)
                  THEN total_seconds(t1, ad.current_cycle[1].work_resume_time) ELSE 0)
        current_wait_time ==
            IF ~open THEN 0
            ELSE ad.current_cycle[1].wait_time +
                 (IF ad.is_waiting /\ Truthy(ad.wait_start)
                  THEN total_seconds(t1, ad.wait_start) ELSE 0)
        total_work == total_work_time + current_work_time
        total_wait == total_wait_time + current_wait_time
        total_time == total_work + total_wait
    IN  [total_time      |-> total_time,
         work_time       |-> total_work,
         wait_time       |-> total_wait,
         work_percentage |-> IF total_time > 0 THEN Rat(total_work * 100, total_time)
                             ELSE RatZero,
         wait_percentage |-> IF total_time > 0 THEN Rat(total_wait * 100, total_time)
                             ELSE RatZero,
         current_task    |-> IF open THEN ad.current_cycle[1].task_name
                             ELSE "No active task",
         session_duration |-> IF Truthy(ad.session_start)
                              THEN total_seconds(t2, ad.session_start) ELSE 0,
         cycle_count     |-> Len(completed_cycles),
         avg_cycle_time  |-> IF completed_cycles # <<>>
                             THEN Rat(SumOf(completed_cycles, "total_time"),
                                      Len(completed_cycles))
                             ELSE RatZero,
         is_waiting      |-> ad.is_waiting,
         current_cycle_active |-> open]

\* one row of the DataFrame; seconds are whole, minutes are in hundredths and
\* percentages in tenths (the second argument of round)
df_row(cycle) ==
    [task_name    |-> cycle.task_name,
     start_time   |-> cycle.start_time,
     end_time     |-> IF Truthy(cycle.end_time) THEN cycle.end_time ELSE None,
     work_seconds |-> cycle.work_time,
     wait_seconds |-> cycle.wait_time,
     total_seconds |-> cycle.total_time,
     work_minutes |-> RoundDiv(cycle.work_time * 100, 60),
     wait_minutes |-> RoundDiv(cycle.wait_time * 100, 60),
     total_minutes |-> RoundDiv(cycle.total_time * 100, 60),
     work_pct     |-> IF cycle.total_time > 0
                      THEN RoundDiv(cycle.work_time * 1000, cycle.total_time) ELSE 0,
     wait_pct     |-> IF cycle.total_time > 0
                      THEN RoundDiv(cycle.wait_time * 1000, cycle.total_time) ELSE 0,
     operator     |-> cycle.operator,
     status       |-> IF "status" \in DOMAIN cycle THEN cycle.status ELSE "Completed"]

\* the copy of the open cycle that get_cycles_dataframe brings up to date
in_progress(ad, current_time) ==
    LET current == ad.current_cycle[1]
    IN  IF Truthy(current.end_time) THEN current
        ELSE [status |-> "In Progress"] @@
             [current EXCEPT
                !.total_time = total_seconds(current_time, current.start_time),
                !.work_time = IF ~ad.is_waiting /\ Truthy(current.work_resume_time)
                              THEN @ + total_seconds(current_time, current.work_resume_time)
                              ELSE @,
                !.wait_time = IF ad.is_waiting /\ Truthy(ad.wait_start)
                              THEN @ + total_seconds(current_time, ad.wait_start)
                              ELSE @,
                !.end_time = current_time]

\* get_cycles_dataframe works on cycles.copy() and current_cycle.copy()
get_cycles_dataframe_nocopy(ad, current_time) ==
    LET all_cycles == IF ad.current_cycle # <<>>
                      THEN Append(ad.cycles, in_progress(ad, current_time))
                      ELSE ad.cycles
    IN  [data |-> IF ad.current_cycle # <<>>
                  THEN [ad EXCEPT !.current_cycle = <<in_progress(ad, current_time)>>]
                  ELSE ad,
         df   |-> [i \in 1..Len(all_cycles) |-> df_row(all_cycles[i])]]

get_cycles_dataframe(ad, current_time) ==
    LET all_cycles == IF ad.current_cycle # <<>>
                      THEN Append(ad.cycles, in_progress(ad, current_time))
                      ELSE ad.cycles
    IN  [data |-> ad,
         df   |-> [i \in 1..Len(all_cycles) |-> df_row(all_cycles[i])]]

\* ---------------------------------------------------------------- history
AccZero == [work |-> 0, wait |-> 0]

\* the clock advanced by d while the analyzer was in state ad
Accrue(ad, a, d) ==
    IF ad.current_cycle = <<>> THEN a
    ELSE IF ad.is_waiting THEN [a EXCEPT !.wait = @ + d]
    ELSE [a EXCEPT !.work = @ + d]

NoMsg == [text |-> "", task |-> "", secs |-> None]

\* what last holds: a call that changed the analyzer, and the message it returned
Call(op, msg) == [op |-> op, msg |-> msg]

\* ---------------------------------------------------------------- steps
Init ==
    /\ now = 0
    /\ analysis_data = reset_analysis
    /\ last = Call("init", NoMsg)
    /\ acc = AccZero
    /\ ex = "fresh"
    /\ created = 0

\* time passes between two calls
Tick ==
    \E t \in Later(now) \ {now} :
        /\ now' = t
        /\ acc' = Accrue(analysis_data, acc, t - now)
        /\ UNCHANGED <<analysis_data, last, ex, created>>

StartSession ==
    /\ analysis_data' = start_session(analysis_data, now)
    /\ last' = Call("start_session", NoMsg)
    /\ ex' = IF ex = "fresh" THEN "session" ELSE "off"
    /\ UNCHANGED <<now, acc, created>>

\* a call that returns failure is recorded neither in last nor in ex
StartTimer ==
    \E task_name \in TaskNames, operator \in Operators, t2 \in Later(now) :
        LET closes == analysis_data.is_timing /\ analysis_data.current_cycle # <<>>
                      /\ ~analysis_data.is_waiting
            r == start_timer(analysis_data, task_name, operator, now, t2)
        IN  /\ t2 = now \/ closes
            /\ Len(r.data.cycles) <= MaxCycles
            /\ analysis_data' = r.data
            /\ now' = t2
            /\ last' = IF r.ok THEN Call("start_timer", r.msg) ELSE last
            /\ acc' = IF r.msg.text = "Started timer for"
                      THEN [work |-> t2 - now, wait |-> 0] ELSE acc
            /\ ex' = IF ~r.ok THEN ex
                     ELSE IF ex = "session" /\ task_name = "Assemble"
                             /\ now = analysis_data.session_start
                     THEN "working"
                     ELSE IF ex = "waiting" /\ now = analysis_data.session_start + 15
                     THEN "resumed"
                     ELSE "off"
            /\ created' = IF r.msg.text = "Started timer for"
                          THEN created + 1 ELSE created
            /\ created' <= MaxCycles + 1

StartWaiting ==
    LET r == start_waiting(analysis_data, now)
    IN  /\ analysis_data' = r.data
        /\ last' = IF r.ok THEN Call("start_waiting", r.msg) ELSE last
        /\ ex' = IF ~r.ok THEN ex
                 ELSE IF ex = "working" /\ now = analysis_data.session_start + 10
                 THEN "waiting" ELSE "off"
        /\ UNCHANGED <<now, acc, created>>

CompleteCurrentCycle ==
    LET r == complete_current_cycle(analysis_data, now)
    IN  /\ Len(r.data.cycles) <= MaxCycles
        /\ analysis_data' = r.data
        /\ last' = IF r.ok THEN Call("complete_current_cycle", r.msg) ELSE last
        /\ acc' = IF r.ok THEN AccZero ELSE acc
        /\ ex' = IF ~r.ok THEN ex
                 ELSE IF ex = "resumed" /\ now = analysis_data.session_start + 25
                 THEN "done" ELSE "off"
        /\ UNCHANGED <<now, created>>

\* the End Session button is drawn only while the session is active
EndSession ==
    LET ad == end_session(analysis_data, now)
    IN  /\ analysis_data.is_timing
        /\ Len(ad.cycles) <= MaxCycles
        /\ analysis_data' = ad
        /\ last' = Call("end_session", NoMsg)
        /\ acc' = AccZero
        /\ ex' = "off"
        /\ UNCHANGED <<now, created>>

\* the Reset button, drawn only while the session is active, replaces the
\* analyzer by a new one
Reset ==
    /\ analysis_data.is_timing
    /\ analysis_data' = reset_analysis
    /\ last' = Call("reset", NoMsg)
    /\ acc' = AccZero
    /\ ex' = "fresh"
    /\ created' = 0
    /\ UNCHANGED now

\* another Station ID in the sidebar: main() makes a new analyzer for it
ChangeStation ==
    /\ analysis_data' = reset_analysis
    /\ last' = Call("change_station", NoMsg)
    /\ acc' = AccZero
    /\ ex' = "fresh"
    /\ created' = 0
    /\ UNCHANGED now

\* the statistics are returned to the caller; the second read of the clock
\* (session_duration) may come later than the first
GetCurrentStats ==
    \E t2 \in Later(now) :
        /\ t2 = now \/ (analysis_data.current_cycle # <<>> /\ Truthy(analysis_data.session_start))
        /\ now' = t2
        /\ acc' = Accrue(analysis_data, acc, t2 - now)
        /\ UNCHANGED <<analysis_data, last, ex, created>>

GetCyclesDataframe ==
    /\ analysis_data' = get_cycles_dataframe(analysis_data, now).data
    /\ UNCHANGED <<now, last, acc, ex, created>>

Next ==
    \/ Tick
    \/ StartSession
    \/ StartTimer
    \/ StartWaiting
    \/ CompleteCurrentCycle
    \/ EndSession
    \/ Reset
    \/ ChangeStation
    \/ GetCurrentStats
    \/ GetCyclesDataframe

Spec == Init /\ [][Next]_vars

\* ---------------------------------------------------------------- properties
\* A claim about what a call does is stated of the call's result in every
\* reachable state, for every argument and every later reading of the clock.
Open == analysis_data.current_cycle # <<>>
Cur == analysis_data.current_cycle[1]
Log == analysis_data.cycles
LogLast == Log[Len(Log)]

\* cycles is Log with exactly one cycle appended at its end
AppendsOne(cycles) ==
    /\ Len(cycles) = Len(Log) + 1
    /\ SubSeq(cycles, 1, Len(Log)) = Log

\* C1: every cycle in the completed log has work_time + wait_time = total_time
\* and total_time = end_time - start_time, whichever call closed it.
C1_WorkPlusWait ==
    \A i \in 1..Len(Log) :
        /\ Log[i].work_time + Log[i].wait_time = Log[i].total_time
        /\ Log[i].total_time = Log[i].end_time - Log[i].start_time

\* a cycle with work and wait in it was closed by End Session, after one that
\* start_timer closed while the clock moved
C1_Witness ==
    /\ last.op = "end_session"
    /\ Len(Log) = 2
    /\ Log[1].end_time > Log[2].start_time
    /\ Log[2].work_time > 0 /\ Log[2].wait_time > 0

\* C2: after exactly start_session at T0, start_timer("Assemble") at T0,
\* start_waiting at T0+10, resume at T0+15 and complete_current_cycle at T0+25,
\* the log holds one cycle, with work_time 20, wait_time 5 and total_time 25.
C2_Example ==
    ex = "done" =>
        /\ Len(Log) = 1
        /\ ~Open
        /\ Log[1].task_name = "Assemble"
        /\ Log[1].work_time = 20
        /\ Log[1].wait_time = 5
        /\ Log[1].total_time = 25

C2_Witness == ex = "done" /\ last.op = "complete_current_cycle"

\* C3: start_timer called while the session is not active returns
\* (False, "Session not started"), leaves current_cycle empty and the log as it was.
C3_NoSession ==
    ~analysis_data.is_timing =>
        \A task_name \in TaskNames, operator \in Operators, t2 \in Later(now) :
            LET r == start_timer(analysis_data, task_name, operator, now, t2)
            IN  /\ ~r.ok
                /\ r.msg.text = "Session not started"
                /\ r.data.current_cycle = <<>>
                /\ r.data.cycles = Log

\* start_timer is refused after the session has ended with a cycle logged
C3_Witness ==
    /\ ~analysis_data.is_timing
    /\ Truthy(analysis_data.session_start)
    /\ Log # <<>>
    /\ \E task_name \in TaskNames, operator \in Operators :
          ~start_timer(analysis_data, task_name, operator, now, now).ok

\* C4: End Session with a cycle open appends that cycle to the log once and
\* leaves no current cycle, is_waiting false, wait_start empty and the session
\* inactive; with no cycle open it appends nothing.
C4_EndSession ==
    analysis_data.is_timing =>
        LET d == end_session(analysis_data, now)
        IN  /\ IF Open
               THEN /\ AppendsOne(d.cycles)
                    /\ d.cycles[Len(Log) + 1].task_name = Cur.task_name
                    /\ d.cycles[Len(Log) + 1].start_time = Cur.start_time
                    /\ d.cycles[Len(Log) + 1].end_time = now
               ELSE d.cycles = Log
            /\ d.current_cycle = <<>>
            /\ ~d.is_waiting
            /\ d.wait_start = None
            /\ ~d.is_timing

\* End Session has closed a cycle that had work and wait in it
C4_Witness ==
    /\ last.op = "end_session"
    /\ ~analysis_data.is_timing /\ ~Open
    /\ Log # <<>>
    /\ LogLast.end_time = now
    /\ LogLast.wait_time > 0
    /\ LogLast.work_time > 0

\* a resume is possible: start_timer would find the open cycle waiting
CanResume == analysis_data.is_timing /\ analysis_data.is_waiting /\ Open

\* C5 as stated: every resume leaves wait_time strictly larger than it was.
C5_StrictlyLarger ==
    CanResume =>
        \A task_name \in TaskNames, operator \in Operators :
            start_timer(analysis_data, task_name, operator, now, now)
                .data.current_cycle[1].wait_time > Cur.wait_time

\* the stored work_time and wait_time of the open cycle against the time the
\* clock spent in each state (acc), the running interval not yet stored
C5_Accounting ==
    Open =>
        IF analysis_data.is_waiting
        THEN /\ Cur.work_time = acc.work
             /\ Cur.wait_time + (now - analysis_data.wait_start) = acc.wait
        ELSE /\ Cur.work_time + (now - Cur.work_resume_time) = acc.work
             /\ Cur.wait_time = acc.wait

\* C5, amended: a resume adds exactly now - wait_start >= 0 to wait_time and
\* leaves work_time alone, so wait_time is strictly larger exactly when the
\* clock advanced during the wait; work_time is the time spent working.
C5_WaitAccumulates ==
    /\ C5_Accounting
    /\ CanResume =>
        \A task_name \in TaskNames, operator \in Operators :
            LET c == start_timer(analysis_data, task_name, operator, now, now)
                        .data.current_cycle[1]
            IN  /\ c.wait_time = Cur.wait_time + (now - analysis_data.wait_start)
                /\ c.wait_time >= Cur.wait_time
                /\ c.wait_time > Cur.wait_time <=> now > analysis_data.wait_start
                /\ c.work_time = Cur.work_time
                /\ c.work_time = acc.work

\* the second resume of one cycle has been made, both waits of positive length
C5_Witness ==
    /\ last.op = "start_timer" /\ last.msg.text = "Resumed work on"
    /\ Open
    /\ last.msg.secs > 0
    /\ Cur.wait_time > last.msg.secs
    /\ Cur.work_time > 0

\* C6: get_current_stats returns percentages that sum to 100 when its
\* total_time > 0, and both 0 when its total_time = 0.
C6_Percentages ==
    \A t2 \in Later(now) :
        LET s == get_current_stats(analysis_data, now, t2)
        IN  /\ s.total_time > 0 =>
                RatEq(RatAdd(s.work_percentage, s.wait_percentage), Rat(100, 1))
            /\ s.total_time = 0 =>
                /\ RatEq(s.work_percentage, RatZero)
                /\ RatEq(s.wait_percentage, RatZero)

\* a cycle is waiting, with work and wait both counted in the statistics
C6_Witness ==
    /\ Open /\ analysis_data.is_waiting
    /\ now > analysis_data.wait_start
    /\ Log # <<>>
    /\ LET s == get_current_stats(analysis_data, now, now)
       IN  /\ s.work_time > 0
           /\ s.wait_time > Cur.wait_time
           /\ s.work_percentage.num > 0
           /\ s.wait_percentage.num > 0

\* C7: get_current_stats and get_cycles_dataframe leave analysis_data as it was.
C7_PureReads ==
    /\ [](get_cycles_dataframe(analysis_data, now).data = analysis_data)
    /\ [][(GetCurrentStats \/ GetCyclesDataframe) => analysis_data' = analysis_data]_vars

\* the DataFrame shows the open cycle with more wait time than is stored
C7_Witness ==
    /\ Open /\ analysis_data.is_waiting
    /\ LET df == get_cycles_dataframe(analysis_data, now).df
       IN  /\ Len(df) = Len(Log) + 1
           /\ df[Len(df)].status = "In Progress"
           /\ df[Len(df)].end_time = now
           /\ df[Len(df)].wait_seconds > Cur.wait_time

\* C8: start_timer(task_name) with the session active and a cycle open and
\* working is never refused: it appends the prior cycle to the log once and
\* opens a cycle named task_name, working, with work_time = 0 and wait_time = 0.
C8_AutoComplete ==
    (analysis_data.is_timing /\ Open /\ ~analysis_data.is_waiting) =>
        \A task_name \in TaskNames, operator \in Operators, t2 \in Later(now) :
            LET r == start_timer(analysis_data, task_name, operator, now, t2)
            IN  /\ r.ok
                /\ AppendsOne(r.data.cycles)
                /\ r.data.cycles[Len(Log) + 1].task_name = Cur.task_name
                /\ r.data.cycles[Len(Log) + 1].start_time = Cur.start_time
                /\ r.data.cycles[Len(Log) + 1].end_time = t2
                /\ Len(r.data.current_cycle) = 1
                /\ r.data.current_cycle[1].task_name = task_name
                /\ r.data.current_cycle[1].start_time = now
                /\ r.data.current_cycle[1].work_time = 0
                /\ r.data.current_cycle[1].wait_time = 0
                /\ ~r.data.is_waiting
                /\ r.data.is_timing

\* start_timer has closed a cycle of another name; the clock moved before the close
C8_Witness ==
    /\ last.op = "start_timer" /\ last.msg.text = "Started timer for"
    /\ Open /\ Log # <<>>
    /\ LogLast.task_name # Cur.task_name
    /\ LogLast.end_time > Cur.start_time

\* C9: no call removes, reorders or changes a logged cycle; every step leaves
\* the log as it was or appends one cycle at its end (Reset and a change of
\* station put a new analyzer in place of this one).
C9_AppendOnly ==
    [][\/ Reset
       \/ ChangeStation
       \/ analysis_data'.cycles = Log
       \/ AppendsOne(analysis_data'.cycles)]_vars

\* two different cycles are in the log, the second appended by complete_current_cycle
C9_Witness ==
    /\ last.op = "complete_current_cycle"
    /\ ~Open
    /\ Len(Log) = 2
    /\ Log[1] # Log[2]

\* C10: start_waiting with no open cycle or while waiting, and
\* complete_current_cycle with no open cycle, return failure; every call that
\* returns failure leaves analysis_data as it was.
C10_Failures ==
    LET w == start_waiting(analysis_data, now)
        c == complete_current_cycle(analysis_data, now)
    IN  /\ (~Open \/ analysis_data.is_waiting) => ~w.ok
        /\ ~Open => ~c.ok
        /\ ~w.ok => w.data = analysis_data
        /\ ~c.ok => c.data = analysis_data
        /\ \A task_name \in TaskNames, operator \in Operators, t2 \in Later(now) :
              LET r == start_timer(analysis_data, task_name, operator, now, t2)
              IN  ~r.ok => r.data = analysis_data

\* start_waiting is refused while waiting, the wait window already running
C10_Witness ==
    /\ Open /\ analysis_data.is_waiting
    /\ now > analysis_data.wait_start
    /\ analysis_data.wait_start > Cur.start_time
    /\ ~start_waiting(analysis_data, now).ok

\* End Session has made the session inactive: only end_session clears is_timing
\* of an analyzer whose session_start is set
Ended == ~analysis_data.is_timing /\ Truthy(analysis_data.session_start)

\* C11 as stated: once End Session has made the session inactive, no step on
\* the same analyzer makes it active again or opens a cycle.
C11_Terminal ==
    [][Ended => (~analysis_data'.is_timing /\ analysis_data'.current_cycle = <<>>)]_vars

\* C11, amended: after End Session no cycle is open, and start_timer,
\* start_waiting and complete_current_cycle are refused and change nothing, so
\* the session stays inactive under every step but Start Session; start_session
\* makes the same analyzer active again, with its log kept and no cycle open.
C11_EndedUntilRestart ==
    /\ [](Ended =>
            /\ ~Open
            /\ \A task_name \in TaskNames, operator \in Operators, t2 \in Later(now) :
                  LET r == start_timer(analysis_data, task_name, operator, now, t2)
                  IN  ~r.ok /\ r.data = analysis_data
            /\ ~start_waiting(analysis_data, now).ok
            /\ start_waiting(analysis_data, now).data = analysis_data
            /\ ~complete_current_cycle(analysis_data, now).ok
            /\ complete_current_cycle(analysis_data, now).data = analysis_data
            /\ LET s == start_session(analysis_data, now)
               IN  /\ s.is_timing
                   /\ s.session_start = now
                   /\ s.cycles = Log
                   /\ s.current_cycle = <<>>)
    /\ [][(Ended /\ ~StartSession) =>
            (~analysis_data'.is_timing /\ analysis_data'.current_cycle = <<>>)]_vars

\* End Session has ended a session with two cycles logged, and time has passed
C11_Witness ==
    /\ Ended
    /\ last.op = "end_session"
    /\ Len(Log) = 2
    /\ now > LogLast.end_time

\* C12: start_session called while the session is active leaves session_start,
\* is_timing, the current cycle, the waiting state and the log as they were.
C12_Idempotent ==
    analysis_data.is_timing =>
        LET s == start_session(analysis_data, now)
        IN  /\ s.session_start = analysis_data.session_start
            /\ s.is_timing = analysis_data.is_timing
            /\ s.current_cycle = analysis_data.current_cycle
            /\ s.is_waiting = analysis_data.is_waiting
            /\ s.wait_start = analysis_data.wait_start
            /\ s.cycles = Log

\* C13: start_timer called while the open cycle is waiting resumes that cycle
\* whatever task_name it is given: wait_time grows by now - wait_start,
\* is_waiting and wait_start are cleared, work_resume_time is now, and the
\* cycle's name, start_time and work_time and the log stay as they were.
C13_Resume ==
    CanResume =>
        \A task_name \in TaskNames, operator \in Operators, t2 \in Later(now) :
            LET r == start_timer(analysis_data, task_name, operator, now, t2)
            IN  /\ r.ok
                /\ r.msg.text = "Resumed work on"
                /\ Len(r.data.current_cycle) = 1
                /\ r.data.current_cycle[1] =
                      [Cur EXCEPT !.wait_time = @ + (now - analysis_data.wait_start),
                                  !.work_resume_time = now]
                /\ r.data.current_cycle[1].task_name = Cur.task_name
                /\ r.data.current_cycle[1].start_time = Cur.start_time
                /\ r.data.current_cycle[1].work_time = Cur.work_time
                /\ ~r.data.is_waiting
                /\ r.data.wait_start = None
                /\ r.data.cycles = Log
                /\ r.data.is_timing
                /\ r.data.session_start = analysis_data.session_start

\* a cycle with work stored is waiting, a cycle is logged, and start_timer is
\* called under another name than the waiting cycle's
C13_Witness ==
    /\ CanResume
    /\ now > analysis_data.wait_start
    /\ Cur.work_time > 0
    /\ Log # <<>>
    /\ \E task_name \in TaskNames \ {Cur.task_name}, operator \in Operators :
          start_timer(analysis_data, task_name, operator, now, now).msg.task = Cur.task_name

\* the tests under which get_current_stats and complete_current_cycle count the
\* running interval as work (lines 140, 104) or as wait (lines 145, 98)
WorkAccruing == Open /\ ~analysis_data.is_waiting /\ Truthy(Cur.work_resume_time)
WaitAccruing == Open /\ analysis_data.is_waiting /\ Truthy(analysis_data.wait_start)

\* C14: wait_start is set exactly while is_waiting is true, is_waiting is true
\* only while a cycle is open, and for an open cycle exactly one of work and
\* wait is accruing: as the clock moves on, get_current_stats shows exactly one
\* of work_time and wait_time growing, by the time passed.
C14_WaitWindow ==
    /\ Truthy(analysis_data.wait_start) <=> analysis_data.is_waiting
    /\ analysis_data.is_waiting => Open
    /\ analysis_data.is_waiting => analysis_data.wait_start <= now
    /\ Open => (WorkAccruing # WaitAccruing)
    /\ ~Open => (~WorkAccruing /\ ~WaitAccruing)
    /\ \A u \in Later(now) \ {now} :
          LET a == get_current_stats(analysis_data, now, now)
              b == get_current_stats(analysis_data, u, u)
          IN  IF Open
              THEN /\ (b.work_time > a.work_time) # (b.wait_time > a.wait_time)
                   /\ b.work_time + b.wait_time = a.work_time + a.wait_time + (u - now)
                   /\ b.wait_time > a.wait_time <=> analysis_data.is_waiting
              ELSE b.work_time = a.work_time /\ b.wait_time = a.wait_time

\* a second wait window is open in a session whose last logged cycle had waited
C14_Witness ==
    /\ last.op = "start_waiting"
    /\ WaitAccruing
    /\ Cur.wait_time > 0
    /\ Log # <<>>
    /\ LogLast.wait_time > 0
    /\ Later(now) # {now}

\* C15: the stored work_time and wait_time of the open cycle are never
\* negative; start_waiting adds exactly now - work_resume_time to work_time
\* and nothing to wait_time; complete_current_cycle adds the running interval
\* to the one bucket that is accruing and stamps end_time = now; and no step
\* makes the work_time or wait_time of a cycle smaller, while it stays open or
\* when it is logged.
C15_Monotone ==
    /\ [](Open =>
            /\ Cur.work_time >= 0 /\ Cur.wait_time >= 0
            /\ Cur.work_resume_time <= now
            /\ ~analysis_data.is_waiting =>
                  LET w == start_waiting(analysis_data, now)
                  IN  /\ w.ok
                      /\ w.data.current_cycle[1].work_time =
                            Cur.work_time + (now - Cur.work_resume_time)
                      /\ w.data.current_cycle[1].work_time >= Cur.work_time
                      /\ w.data.current_cycle[1].wait_time = Cur.wait_time
            /\ LET c == complete_current_cycle(analysis_data, now)
                   e == c.data.cycles[Len(Log) + 1]
               IN  /\ c.ok
                   /\ e.end_time = now
                   /\ IF analysis_data.is_waiting
                      THEN /\ e.wait_time = Cur.wait_time + (now - analysis_data.wait_start)
                           /\ e.wait_time >= Cur.wait_time
                           /\ e.work_time = Cur.work_time
                      ELSE /\ e.work_time = Cur.work_time + (now - Cur.work_resume_time)
                           /\ e.work_time >= Cur.work_time
                           /\ e.wait_time = Cur.wait_time)
    /\ [][(Open /\ analysis_data'.current_cycle # <<>> /\ analysis_data'.cycles = Log) =>
            /\ analysis_data'.current_cycle[1].work_time >= Cur.work_time
            /\ analysis_data'.current_cycle[1].wait_time >= Cur.wait_time]_vars
    /\ [][(Open /\ AppendsOne(analysis_data'.cycles)) =>
            /\ analysis_data'.cycles[Len(Log) + 1].work_time >= Cur.work_time
            /\ analysis_data'.cycles[Len(Log) + 1].wait_time >= Cur.wait_time]_vars

\* a cycle with work and wait stored is waiting, the wait window running:
\* complete_current_cycle has only wait time to add
C15_Witness ==
    /\ WaitAccruing
    /\ now > analysis_data.wait_start
    /\ Cur.work_time > 0
    /\ Cur.wait_time > 0
    /\ Cur.work_resume_time < analysis_data.wait_start
    /\ complete_current_cycle(analysis_data, now).ok

\* the interval that is accruing for the open cycle, up to the reading t
Running(t) ==
    IF analysis_data.is_waiting
    THEN total_seconds(t, analysis_data.wait_start)
    ELSE total_seconds(t, Cur.work_resume_time)

\* C16: with a cycle open, stored work_time + stored wait_time + the interval
\* that is accruing = now - start_time; so get_current_stats returns as
\* total_time the total_time of the logged cycles plus the time since the open
\* cycle started, and as cycle_count the number of logged cycles.
C16_Elapsed ==
    /\ Open => Cur.work_time + Cur.wait_time + Running(now) = now - Cur.start_time
    /\ \A t2 \in Later(now) :
          LET s == get_current_stats(analysis_data, now, t2)
          IN  /\ s.cycle_count = Len(Log)
              /\ s.total_time = SumOf(Log, "total_time")
                                  + (IF Open THEN now - Cur.start_time ELSE 0)
              /\ s.work_time + s.wait_time = s.total_time

\* a resumed cycle is working again, a cycle is logged, the clock has moved
\* since the resume: all of stored work, stored wait and running time count
C16_Witness ==
    /\ WorkAccruing
    /\ Log # <<>>
    /\ SumOf(Log, "total_time") > 0
    /\ Cur.work_time > 0
    /\ Cur.wait_time > 0
    /\ Running(now) > 0
    /\ get_current_stats(analysis_data, now, now).total_time > now - Cur.start_time

\* C17: a current cycle exists only while the session is active: current_cycle
\* set implies is_timing true and session_start set, in every reachable state.
C17_CycleInSession ==
    Open => (analysis_data.is_timing /\ Truthy(analysis_data.session_start))

\* a cycle is open in a session started again after the first one was ended
\* with a cycle logged
C17_Witness ==
    /\ Open
    /\ last.op = "start_timer"
    /\ Log # <<>>
    /\ analysis_data.session_start > LogLast.start_time
    /\ analysis_data.session_start >= LogLast.end_time
    /\ Cur.start_time >= analysis_data.session_start

\* C18: logged cycles do not overlap in time: each logged cycle starts no
\* earlier than the one logged before it ended, and the open cycle starts no
\* earlier than the last logged cycle ended, also when the clock advances
\* between the two readings start_timer makes.
C18_NoOverlap ==
    /\ \A i \in 1..(Len(Log) - 1) : Log[i + 1].start_time >= Log[i].end_time
    /\ (Open /\ Log # <<>>) => Cur.start_time >= LogLast.end_time

\* C19: cycles are conserved: in the analyzer in use, the number of logged
\* cycles, plus one if a cycle is open, is the number of cycles start_timer
\* has created in it; no step but a successful start_timer made while not
\* waiting changes that number, so no cycle is dropped or logged twice.
C19_Conserved ==
    /\ [](Len(Log) + (IF Open THEN 1 ELSE 0) = created)
    /\ [][(Len(analysis_data'.cycles) + Len(analysis_data'.current_cycle)
               # Len(Log) + Len(analysis_data.current_cycle))
            => \/ Reset \/ ChangeStation
               \/ /\ StartTimer
                  /\ analysis_data.is_timing
                  /\ ~analysis_data.is_waiting
                  /\ Len(analysis_data'.cycles) + Len(analysis_data'.current_cycle)
                       = Len(Log) + Len(analysis_data.current_cycle) + 1]_vars

\* three cycles were created: two are logged, one of them by End Session
\* before the session was started again, and the third is open and waiting
C19_Witness ==
    /\ created = 3
    /\ Len(Log) = 2
    /\ WaitAccruing
    /\ analysis_data.session_start >= Log[1].end_time
    /\ analysis_data.session_start > Log[1].start_time

====
